---- MODULE Spec2Model ----
(***************************************************************************)
(* The agent control loop of react-agent-with-tools: the compiled graph    *)
(* of src/agent/graph.py (agent_node, should_continue, tools_node) and the *)
(* helpers of src/agent/utils.py (loop guard, tool dispatcher).            *)
(*                                                                         *)
(* A text is a sequence of tokens; the tokens " " and "\n" are the         *)
(* whitespace characters, every other token is a run of non-whitespace     *)
(* text that the code treats as a unit.                                    *)
(***************************************************************************)
EXTENDS Integers, Sequences, FiniteSets, TLC

VARIABLES messages, pc, modelCalls, sent, invoked, initLen, max_tool_calls,
          calls, outs, results, configurable

vars == <<messages, pc, modelCalls, sent, invoked, initLen, max_tool_calls,
          calls, outs, results, configurable>>

(***************************************************************************)
(* Bounds of the model.                                                    *)
(***************************************************************************)
\* model calls explored in one run of the graph
MaxModelCalls == 7
\* length of the histories handed to the loop guard
MaxHist == 11
\* number of requests handed to the dispatcher in one call
MaxBatch == 3
\* length of the histories handed to the sanitizer
MaxSanitize == 3

(***************************************************************************)
(* Program constants.                                                      *)
(***************************************************************************)
\* utils.py:15  max_calls: int = 3
DefaultMaxCalls == 3
\* utils.py:16  look_back: int = 10
DefaultLookBack == 10
\* config.py:22  max_tool_calls default
DefaultMaxToolCalls == 5

(***************************************************************************)
(* Texts.                                                                  *)
(***************************************************************************)
Whitespace == {" ", "\n"}

RECURSIVE lstrip(_)
lstrip(s) ==
    IF s = <<>> THEN <<>>
    ELSE IF Head(s) \in Whitespace THEN lstrip(Tail(s))
    ELSE s

RECURSIVE rstrip(_)
rstrip(s) ==
    IF s = <<>> THEN <<>>
    ELSE IF s[Len(s)] \in Whitespace THEN rstrip(SubSeq(s, 1, Len(s) - 1))
    ELSE s

\* str.strip()
strip(s) == rstrip(lstrip(s))

(***************************************************************************)
(* Messages (langchain_core.messages).  An id is a pair <<k, i>>: the i-th  *)
(* request of the k-th model response of the run (k = 0 for the requests   *)
(* already in the caller's history); <<>> is "no id".  function_call is    *)
(* the set of legacy function-call records carried in additional_kwargs    *)
(* (empty or a singleton).                                                 *)
(***************************************************************************)
NoId == <<>>

Message(type, content, tool_calls, tool_call_id, function_call, name) ==
    [type |-> type, content |-> content, tool_calls |-> tool_calls,
     tool_call_id |-> tool_call_id, function_call |-> function_call,
     name |-> name]

SystemMessage(content) == Message("system", content, <<>>, NoId, {}, "")
HumanMessage(content) == Message("human", content, <<>>, NoId, {}, "")
AIMessage(content, tool_calls, function_call) ==
    Message("ai", content, tool_calls, NoId, function_call, "")
ToolMessage(content, tool_call_id) ==
    Message("tool", content, <<>>, tool_call_id, {}, "")
FunctionMessage(content, name) ==
    Message("function", content, <<>>, NoId, {}, name)

ToolCall(id, name, args) == [id |-> id, name |-> name, args |-> args]

\* graph.py:21  SYSTEM_MESSAGE
SYSTEM_MESSAGE == SystemMessage(<<"You are a helpful assistant">>)

(***************************************************************************)
(* The tool registry (tools.py:160) and the outcomes of tool.run.          *)
(***************************************************************************)
tools == <<[name |-> "brave_search"], [name |-> "arxiv_search"]>>

ReturnNone == [kind |-> "none"]
ReturnText(t) == [kind |-> "text", value |-> t]
Raise(msg) == [kind |-> "raise", msg |-> msg]

Outcomes ==
    { ReturnNone,
      ReturnText(<<>>),
      ReturnText(<<" ", "\n">>),
      ReturnText(<<" ", "out", " ", "put", "\n">>),
      Raise(<<"connection", " ", "refused">>) }

(***************************************************************************)
(* utils.py: loop guard.                                                   *)
(***************************************************************************)
\* message_has_tool_calls: bool(getattr(message, "tool_calls", None))
message_has_tool_calls(message) == message.tool_calls # <<>>

\* is_tool_response: isinstance(message, ToolMessage)
is_tool_response(message) == message.type = "tool"

\* Python's s[start:] for an integer start of either sign
PySliceFrom(s, start) ==
    LET n == Len(s)
        st == IF start < 0
              THEN (IF start + n < 0 THEN 0 ELSE start + n)
              ELSE (IF start > n THEN n ELSE start)
    IN SubSeq(s, st + 1, n)

\* recent_messages = messages[-look_back:] if len(messages) > look_back else messages
recent_messages(msgs, look_back) ==
    IF Len(msgs) > look_back THEN PySliceFrom(msgs, 0 - look_back) ELSE msgs

\* the for loop counting the tool responses as well
RECURSIVE count_consecutive_with_responses(_, _, _)
count_consecutive_with_responses(recent, i, consecutive_tool_calls) ==
    IF i = 0 THEN consecutive_tool_calls
    ELSE IF message_has_tool_calls(recent[i]) \/ is_tool_response(recent[i])
         THEN count_consecutive_with_responses(recent, i - 1,
                                               consecutive_tool_calls + 1)
    ELSE consecutive_tool_calls

\* the for loop going on past a message that is neither
RECURSIVE count_consecutive_no_break(_, _, _)
count_consecutive_no_break(recent, i, consecutive_tool_calls) ==
    IF i = 0 THEN consecutive_tool_calls
    ELSE IF message_has_tool_calls(recent[i])
         THEN count_consecutive_no_break(recent, i - 1, consecutive_tool_calls + 1)
    ELSE count_consecutive_no_break(recent, i - 1, consecutive_tool_calls)

\* the for loop over reversed(recent_messages); i is the position still to visit
RECURSIVE count_consecutive(_, _, _)
count_consecutive(recent, i, consecutive_tool_calls) ==
    IF i = 0 THEN consecutive_tool_calls
    ELSE IF message_has_tool_calls(recent[i])
         THEN count_consecutive(recent, i - 1, consecutive_tool_calls + 1)
    ELSE IF is_tool_response(recent[i])
         THEN count_consecutive(recent, i - 1, consecutive_tool_calls)
    ELSE consecutive_tool_calls

has_too_many_consecutive_tool_calls(msgs, max_calls, look_back) ==
    LET recent == recent_messages(msgs, look_back)
    IN count_consecutive(recent, Len(recent), 0) >= max_calls

(***************************************************************************)
(* utils.py: tool dispatcher.  The outcome of tool.run(tool_input) is the  *)
(* environment's; it is handed in as "outcome".                            *)
(***************************************************************************)
\* execute_tool returning the bare failure message
execute_tool_bare_message(tool, tool_name, tool_input, outcome) ==
    IF outcome.kind = "raise"
    THEN outcome.msg
    ELSE LET result_content ==
                 IF outcome.kind = "none"
                 THEN <<"Tool execution completed with no output">>
                 ELSE outcome.value
             stripped == strip(result_content)
         IN IF stripped = <<>>
            THEN <<"Tool execution completed but returned empty result">>
            ELSE stripped

\* execute_tool without the test for an empty result
execute_tool_no_empty_test(tool, tool_name, tool_input, outcome) ==
    IF outcome.kind = "raise"
    THEN <<"Error executing tool ", tool_name, ": ">> \o outcome.msg
    ELSE LET result_content ==
                 IF outcome.kind = "none"
                 THEN <<"Tool execution completed with no output">>
                 ELSE outcome.value
         IN strip(result_content)

execute_tool(tool, tool_name, tool_input, outcome) ==
    IF outcome.kind = "raise"
    THEN <<"Error executing tool ", tool_name, ": ">> \o outcome.msg
    ELSE LET result_content ==
                 IF outcome.kind = "none"
                 THEN <<"Tool execution completed with no output">>
                 ELSE outcome.value
             stripped == strip(result_content)
         IN IF stripped = <<>>
            THEN <<"Tool execution completed but returned empty result">>
            ELSE stripped

\* next((t for t in tools if t.name == tool_name), None): the position of
\* the first tool of that name, 0 for None
RECURSIVE find_from(_, _, _)
find_from(tls, tool_name, i) ==
    IF i > Len(tls) THEN 0
    ELSE IF tls[i].name = tool_name THEN i
    ELSE find_from(tls, tool_name, i + 1)

\* find_tool_by_name defaulting to the first tool
find_tool_by_name_default_first(tls, tool_name) ==
    IF find_from(tls, tool_name, 1) = 0 THEN 1 ELSE find_from(tls, tool_name, 1)

find_tool_by_name(tls, tool_name) == find_from(tls, tool_name, 1)

\* the body of the for loop of process_tool_calls for the i-th call
tool_result(tool_call, tls, outcome) ==
    LET tool_name == tool_call.name
        tool_input == tool_call.args
        tool == find_tool_by_name(tls, tool_name)
        result_content ==
            IF tool # 0
            THEN execute_tool(tls[tool], tool_name, tool_input, outcome)
            ELSE <<"Tool '", tool_name, "' not found">>
    IN ToolMessage(result_content, tool_call.id)

\* the loop of process_tool_calls skipping the requests that name no tool
RECURSIVE process_from_skip_unknown(_, _, _, _, _)
process_from_skip_unknown(tool_calls, tls, outcomes, i, messages_to_add) ==
    IF i > Len(tool_calls) THEN messages_to_add
    ELSE process_from_skip_unknown(tool_calls, tls, outcomes, i + 1,
             IF find_tool_by_name(tls, tool_calls[i].name) = 0
             THEN messages_to_add
             ELSE Append(messages_to_add,
                         tool_result(tool_calls[i], tls, outcomes[i])))

\* the loop of process_tool_calls returning after its first iteration
process_from_first_only(tool_calls, tls, outcomes, i, messages_to_add) ==
    IF i > Len(tool_calls) THEN messages_to_add
    ELSE Append(messages_to_add, tool_result(tool_calls[i], tls, outcomes[i]))

\* the loop of process_tool_calls inserting each result at the front
RECURSIVE process_from_insert_front(_, _, _, _, _)
process_from_insert_front(tool_calls, tls, outcomes, i, messages_to_add) ==
    IF i > Len(tool_calls) THEN messages_to_add
    ELSE process_from_insert_front(tool_calls, tls, outcomes, i + 1,
             <<tool_result(tool_calls[i], tls, outcomes[i])>> \o messages_to_add)

RECURSIVE process_from(_, _, _, _, _)
process_from(tool_calls, tls, outcomes, i, messages_to_add) ==
    IF i > Len(tool_calls) THEN messages_to_add
    ELSE process_from(tool_calls, tls, outcomes, i + 1,
             Append(messages_to_add, tool_result(tool_calls[i], tls, outcomes[i])))

process_tool_calls(tool_calls, tls, outcomes) ==
    process_from(tool_calls, tls, outcomes, 1, <<>>)

\* the calls of tool.run with a second call after a failure
RECURSIVE runs_from_retry_failed(_, _, _, _, _)
runs_from_retry_failed(tool_calls, tls, outcomes, i, log) ==
    IF i > Len(tool_calls) THEN log
    ELSE LET tool == find_tool_by_name(tls, tool_calls[i].name)
             run == [call |-> i, tool |-> tls[tool].name,
                     input |-> tool_calls[i].args, outcome |-> outcomes[i]]
         IN runs_from_retry_failed(tool_calls, tls, outcomes, i + 1,
                IF tool = 0 THEN log
                ELSE IF outcomes[i].kind = "raise" THEN log \o <<run, run>>
                ELSE Append(log, run))

\* the calls of tool.run made by process_tool_calls, in the order made
RECURSIVE runs_from(_, _, _, _, _)
runs_from(tool_calls, tls, outcomes, i, log) ==
    IF i > Len(tool_calls) THEN log
    ELSE LET tool == find_tool_by_name(tls, tool_calls[i].name)
         IN runs_from(tool_calls, tls, outcomes, i + 1,
                IF tool # 0
                THEN Append(log, [call |-> i, tool |-> tls[tool].name,
                                  input |-> tool_calls[i].args,
                                  outcome |-> outcomes[i]])
                ELSE log)

tool_runs(tool_calls, tls, outcomes) == runs_from(tool_calls, tls, outcomes, 1, <<>>)

\* the dispatcher graph.py:96 calls on the structured tool-call list; utils.py
\* holds it under the name process_tool_calls
process_new_format_tool_calls(tool_calls, tls, outcomes) ==
    process_tool_calls(tool_calls, tls, outcomes)

\* decoding of the legacy arguments blob into a mapping
ValidBlob == "{\"query\": \"q\"}"
MalformedBlob == "{query"
json_loads(blob) == IF blob = ValidBlob THEN <<"q">> ELSE <<>>

\* the dispatcher graph.py:103 calls on a legacy function_call
process_old_format_function_call(function_call, tls, outcome) ==
    LET tool == find_tool_by_name(tls, function_call.name)
    IN FunctionMessage(
           IF tool # 0
           THEN execute_tool(tls[tool], function_call.name,
                             json_loads(function_call.arguments)[1], outcome)
           ELSE <<"Tool '", function_call.name, "' not found">>,
           function_call.name)

(***************************************************************************)
(* config.py and utils.py: the configuration.  An option value is a typed  *)
(* value: a str carries a text, an int an integer, a float its decimal     *)
(* text, None nothing.                                                     *)
(***************************************************************************)
Str(text) == [t |-> "str", v |-> text]
Int_(n) == [t |-> "int", v |-> n]
Float(d) == [t |-> "float", v |-> d]
None == [t |-> "none", v |-> ""]

\* Configuration.model_fields.keys()
config_fields == {"model_name", "temperature", "max_tool_calls", "system_message"}

\* config.py:11-30, the defaults of the fields
DefaultSystemMessage ==
    <<"You are a helpful assistant", "\n", " ", "You can use tools">>

ConfigurationDefaults ==
    [model_name |-> Str(<<"gemini-2.5-flash">>),
     temperature |-> Float("0.0"),
     max_tool_calls |-> Int_(DefaultMaxToolCalls),
     system_message |-> Str(DefaultSystemMessage)]

\* the numbers a text or an int converts to under pydantic's validation
IntOfText(text) ==
    IF text = <<"10">> THEN {10} ELSE IF text = <<"1">> THEN {1} ELSE {}
FloatOfText(text) ==
    IF text = <<"10">> THEN {"10.0"} ELSE IF text = <<"1">> THEN {"1.0"}
    ELSE IF text = <<"0.5">> THEN {"0.5"} ELSE {}
FloatOfInt(n) ==
    IF n = 1 THEN "1.0" ELSE IF n = 5 THEN "5.0" ELSE "10.0"
IntOfFloat(d) ==
    IF d = "1.0" THEN {1} ELSE IF d = "5.0" THEN {5}
    ELSE IF d = "10.0" THEN {10} ELSE {}

\* pydantic's validation of one field: the set holding the validated value,
\* empty when the value is rejected
validate_field(field, value) ==
    IF field \in {"model_name", "system_message"}
    THEN IF value.t = "str" THEN {value} ELSE {}
    ELSE IF field = "temperature"
    THEN IF value.t = "float" THEN {value}
         ELSE IF value.t = "int" THEN {Float(FloatOfInt(value.v))}
         ELSE IF value.t = "str" THEN { Float(d) : d \in FloatOfText(value.v) }
         ELSE {}
    ELSE IF value.t = "int" THEN {value}
         ELSE IF value.t = "float" THEN { Int_(n) : n \in IntOfFloat(value.v) }
         ELSE IF value.t = "str" THEN { Int_(n) : n \in IntOfText(value.v) }
         ELSE {}

\* Configuration(**kwargs): the instance, or the error its validation raises
Configuration(kwargs) ==
    IF \A k \in DOMAIN kwargs \cap config_fields :
           validate_field(k, kwargs[k]) # {}
    THEN [raised |-> "",
          config |-> [k \in config_fields |->
                         IF k \in DOMAIN kwargs
                         THEN CHOOSE x \in validate_field(k, kwargs[k]) : TRUE
                         ELSE ConfigurationDefaults[k]]]
    ELSE [raised |-> "ValidationError", config |-> ConfigurationDefaults]

\* the exception classes an except clause for the named classes catches:
\* pydantic's ValidationError is a ValueError
Catches(classes, error) ==
    \/ error \in classes
    \/ error = "ValidationError" /\ "ValueError" \in classes

\* utils.py:137-150 with another except clause
get_agent_config_except_key_error(options) ==
    LET filtered_config ==
            [key \in DOMAIN options \cap config_fields |-> options[key]]
        attempt == Configuration(filtered_config)
    IN IF attempt.raised = "" THEN attempt
       ELSE IF Catches({"KeyError"}, attempt.raised)
       THEN Configuration(<<>>)
       ELSE attempt

\* utils.py:137-150 replacing only the rejected fields by their defaults
get_agent_config_per_field(options) ==
    LET filtered_config ==
            [key \in DOMAIN options \cap config_fields |-> options[key]]
        accepted == { key \in DOMAIN filtered_config :
                        validate_field(key, filtered_config[key]) # {} }
    IN Configuration([key \in accepted |-> filtered_config[key]])

\* utils.py:125-150; options is config.get("configurable", {})
get_agent_config(options) ==
    LET filtered_config ==
            [key \in DOMAIN options \cap config_fields |-> options[key]]
        attempt == Configuration(filtered_config)
    IN IF attempt.raised = "" THEN attempt
       ELSE IF Catches({"TypeError", "ValueError", "KeyError"}, attempt.raised)
       THEN Configuration(<<>>)
       ELSE attempt

\* utils.py:91-107, the body of the loop for one message
filtered_message(message) ==
    LET content == message.content
    IN IF content = <<>> \/ strip(content) = <<>>
       THEN IF message.type = "tool"
            THEN [message EXCEPT !.content = <<"Completed">>]
            ELSE IF message.type = "system"
            THEN message
            ELSE [message EXCEPT !.content = <<"...">>]
       ELSE message

RECURSIVE filtered_from(_, _, _)
filtered_from(msgs, i, processed) ==
    IF i > Len(msgs) THEN processed
    ELSE filtered_from(msgs, i + 1, Append(processed, filtered_message(msgs[i])))

\* utils.py:87-109
filter_empty_content_messages(msgs) == filtered_from(msgs, 1, <<>>)

\* utils.py:112-114
get_system_message(config) == SystemMessage(config.system_message.v)

(***************************************************************************)
(* graph.py: agent_node, should_continue, tools_node and the edges.        *)
(***************************************************************************)
\* graph.py:45-46 without the test of the first message
with_system_message_always(msgs) == <<SYSTEM_MESSAGE>> \o msgs

\* graph.py:45-46 testing the last message instead of the first
with_system_message_last(msgs) ==
    IF msgs = <<>> \/ msgs[Len(msgs)].type # "system"
    THEN <<SYSTEM_MESSAGE>> \o msgs
    ELSE msgs

\* graph.py:45-46
with_system_message(msgs) ==
    IF msgs = <<>> \/ msgs[1].type # "system"
    THEN <<SYSTEM_MESSAGE>> \o msgs
    ELSE msgs

\* graph.py:51-67 replacing the content of tool results only
processed_message_tools_only(message) ==
    LET content == message.content
    IN IF content = <<>> \/ strip(content) = <<>>
       THEN IF message.type \in {"tool", "function"}
            THEN [message EXCEPT !.content = <<"Completed">>]
            ELSE message
       ELSE message

\* graph.py:51-67 building a new message of the same type instead of a copy
processed_message_rebuilt(message) ==
    LET content == message.content
    IN IF content = <<>> \/ strip(content) = <<>>
       THEN IF message.type \in {"tool", "function"}
            THEN Message(message.type, <<"Completed">>, <<>>, NoId, {}, "")
            ELSE IF message.type = "system"
            THEN message
            ELSE Message(message.type, <<"...">>, <<>>, NoId, {}, "")
       ELSE message

\* graph.py:51-67, the body of the loop for one message
processed_message(message) ==
    LET content == message.content
    IN IF content = <<>> \/ strip(content) = <<>>
       THEN IF message.type \in {"tool", "function"}
            THEN [message EXCEPT !.content = <<"Completed">>]
            ELSE IF message.type = "system"
            THEN message
            ELSE [message EXCEPT !.content = <<"...">>]
       ELSE message

RECURSIVE processed_from(_, _, _)
processed_from(msgs, i, processed_messages) ==
    IF i > Len(msgs) THEN processed_messages
    ELSE processed_from(msgs, i + 1,
             Append(processed_messages, processed_message(msgs[i])))

\* graph.py:42-67: what agent_node hands to the model
processed_messages(msgs) == processed_from(with_system_message(msgs), 1, <<>>)

\* should_continue with the two tests in the other order
should_continue_calls_first(msgs) ==
    LET last_message == msgs[Len(msgs)]
    IN IF message_has_tool_calls(last_message)
       THEN "tools_edge"
       ELSE IF has_too_many_consecutive_tool_calls(msgs, DefaultMaxCalls, DefaultLookBack)
       THEN "END"
       ELSE "END"

\* should_continue taking the legacy function call for a tool call
should_continue_any_call(msgs) ==
    LET last_message == msgs[Len(msgs)]
    IN IF has_too_many_consecutive_tool_calls(msgs, DefaultMaxCalls, DefaultLookBack)
       THEN "END"
       ELSE IF message_has_tool_calls(last_message)
               \/ last_message.function_call # {}
       THEN "tools_edge"
       ELSE "END"

\* graph.py:73-86
should_continue(msgs) ==
    LET last_message == msgs[Len(msgs)]
    IN IF has_too_many_consecutive_tool_calls(msgs, DefaultMaxCalls, DefaultLookBack)
       THEN "END"
       ELSE IF message_has_tool_calls(last_message)
       THEN "tools_edge"
       ELSE "END"

\* graph.py:117-124, the mapping of the conditional edge
edge_target(edge) == IF edge = "tools_edge" THEN "tools_node" ELSE "END"

(***************************************************************************)
(* The model (llm_with_tools.invoke, graph.py:69) and the caller.          *)
(***************************************************************************)
Blob(name, arguments) == [name |-> name, arguments |-> arguments]

\* the responses the model may give: content, names of the tools requested,
\* legacy function call
ResponseShapes ==
    { [content |-> <<"answer">>, names |-> <<>>, function_call |-> {}],
      [content |-> <<>>, names |-> <<>>, function_call |-> {}],
      [content |-> <<>>, names |-> <<>>,
       function_call |-> {Blob("brave_search", ValidBlob)}],
      [content |-> <<>>, names |-> <<"brave_search">>, function_call |-> {}],
      [content |-> <<" ">>, names |-> <<"web_lookup", "arxiv_search">>,
       function_call |-> {}],
      [content |-> <<>>,
       names |-> <<"web_lookup", "image_search", "web_lookup", "image_search">>,
       function_call |-> {}] }

\* the k-th response of a run: its requests carry fresh ids
Response(shape, k) ==
    AIMessage(shape.content,
              [i \in 1..Len(shape.names) |->
                   ToolCall(<<k, i>>, shape.names[i], "q")],
              shape.function_call)

PriorTurn(i) ==
    <<AIMessage(<<>>, <<ToolCall(<<0, i>>, "brave_search", "q")>>, {}),
      ToolMessage(<<"out">>, <<0, i>>)>>

\* the histories the caller may supply
InitialHistories ==
    { <<>>,
      <<HumanMessage(<<"hi">>)>>,
      <<SystemMessage(<<>>)>>,
      <<SystemMessage(<<"be", " ", "brief">>), HumanMessage(<<" ">>)>>,
      <<HumanMessage(<<"hi">>)>> \o PriorTurn(1) \o PriorTurn(2) }

\* the values the caller may configure for max_tool_calls
ConfiguredMaxToolCalls == {1, DefaultMaxToolCalls}

\* the option mappings the caller may run the graph with
LoopConfigurables ==
    { <<>> }
    \cup { [key \in {"max_tool_calls"} |-> Int_(n)] : n \in ConfiguredMaxToolCalls }
    \cup { [key \in {"system_message"} |-> Str(<<"be", " ", "brief">>)] }

\* the outcomes of the calls of one dispatch round; a request that resolves
\* to no tool has no outcome of its own
OutcomeChoices(tool_calls, tls) ==
    { f \in [1..Len(tool_calls) -> Outcomes] :
        \A i \in 1..Len(tool_calls) :
            find_tool_by_name(tls, tool_calls[i].name) = 0 => f[i] = ReturnNone }

Init ==
    /\ messages \in InitialHistories
    /\ initLen = Len(messages)
    /\ configurable \in LoopConfigurables
    /\ max_tool_calls = get_agent_config(configurable).config.max_tool_calls.v
    /\ pc = "agent_node"
    /\ modelCalls = 0
    /\ sent = <<>>
    /\ invoked = <<>>
    /\ calls = <<>>
    /\ outs = <<>>
    /\ results = <<>>

\* agent_node returning the prepared messages together with the response
agent_node_returns_processed ==
    /\ pc = "agent_node"
    /\ modelCalls < MaxModelCalls
    /\ \E shape \in ResponseShapes :
         LET response == Response(shape, modelCalls + 1)
         IN /\ sent' = processed_messages(messages)
            /\ messages' = processed_messages(messages) \o <<response>>
            /\ pc' = edge_target(should_continue(messages \o <<response>>))
    /\ modelCalls' = modelCalls + 1
    /\ UNCHANGED <<invoked, initLen, max_tool_calls, calls, outs, results,
                   configurable>>

agent_node ==
    /\ pc = "agent_node"
    /\ modelCalls < MaxModelCalls
    /\ \E shape \in ResponseShapes :
         LET response == Response(shape, modelCalls + 1)
         IN /\ sent' = processed_messages(messages)
            /\ messages' = messages \o <<response>>
            /\ pc' = edge_target(should_continue(messages \o <<response>>))
    /\ modelCalls' = modelCalls + 1
    /\ UNCHANGED <<invoked, initLen, max_tool_calls, calls, outs, results,
                   configurable>>

tools_node ==
    /\ pc = "tools_node"
    /\ LET last_message == messages[Len(messages)]
           tool_calls == last_message.tool_calls
           function_call == last_message.function_call
       IN IF tool_calls # <<>>
          THEN \E outcomes \in OutcomeChoices(tool_calls, tools) :
                 /\ messages' = messages \o
                        process_new_format_tool_calls(tool_calls, tools, outcomes)
                 /\ invoked' = tool_runs(tool_calls, tools, outcomes)
                 /\ pc' = "agent_node"
          ELSE IF function_call # {}
          THEN \E fc \in function_call, outcome \in Outcomes :
                 IF json_loads(fc.arguments) = <<>>
                 THEN /\ pc' = "raised"
                      /\ UNCHANGED <<messages, invoked>>
                 ELSE /\ messages' = messages \o
                             <<process_old_format_function_call(fc, tools, outcome)>>
                      /\ invoked' = invoked
                      /\ pc' = "agent_node"
          ELSE /\ messages' = messages \o
                      <<FunctionMessage(<<"No tool calls found">>, "error")>>
               /\ invoked' = invoked
               /\ pc' = "agent_node"
    /\ UNCHANGED <<modelCalls, sent, initLen, max_tool_calls, calls, outs, results,
                   configurable>>

Next == agent_node \/ tools_node

Spec == Init /\ [][Next]_vars

(***************************************************************************)
(* The loop guard on its own: the caller builds a history message by       *)
(* message and the guard is applied to it with its default parameters.     *)
(***************************************************************************)
GuardMessages ==
    { AIMessage(<<>>, <<ToolCall(<<0, 1>>, "brave_search", "q")>>, {}),
      ToolMessage(<<"out">>, <<0, 1>>),
      HumanMessage(<<"hi">>) }

InitGuard ==
    /\ messages = <<>>
    /\ results = <<has_too_many_consecutive_tool_calls(<<>>, DefaultMaxCalls,
                                                       DefaultLookBack)>>
    /\ pc = "guard"
    /\ initLen = 0
    /\ max_tool_calls = DefaultMaxToolCalls
    /\ configurable = <<>>
    /\ modelCalls = 0
    /\ sent = <<>>
    /\ invoked = <<>>
    /\ calls = <<>>
    /\ outs = <<>>

guard_history ==
    /\ pc = "guard"
    /\ Len(messages) < MaxHist
    /\ \E m \in GuardMessages :
         /\ messages' = Append(messages, m)
         /\ results' = <<has_too_many_consecutive_tool_calls(
                             Append(messages, m), DefaultMaxCalls, DefaultLookBack)>>
    /\ UNCHANGED <<pc, modelCalls, sent, invoked, initLen, max_tool_calls,
                   calls, outs, configurable>>

NextGuard == guard_history

SpecGuard == InitGuard /\ [][NextGuard]_vars

(***************************************************************************)
(* The dispatcher on its own: a batch of requests and the outcomes of the  *)
(* tools are drawn, and process_tool_calls is applied to them.             *)
(***************************************************************************)
BatchCalls ==
    { ToolCall(id, name, "q") :
        id \in {<<0, 1>>, <<0, 2>>},
        name \in {"brave_search", "arxiv_search", "web_lookup"} }

Batches == UNION { [1..n -> BatchCalls] : n \in 0..MaxBatch }

InitDispatch ==
    /\ calls \in Batches
    /\ outs \in OutcomeChoices(calls, tools)
    /\ results = <<>>
    /\ invoked = <<>>
    /\ pc = "dispatch"
    /\ messages = <<>>
    /\ initLen = 0
    /\ max_tool_calls = DefaultMaxToolCalls
    /\ configurable = <<>>
    /\ modelCalls = 0
    /\ sent = <<>>

dispatch ==
    /\ pc = "dispatch"
    /\ results' = process_tool_calls(calls, tools, outs)
    /\ invoked' = tool_runs(calls, tools, outs)
    /\ pc' = "dispatched"
    /\ UNCHANGED <<messages, modelCalls, sent, initLen, max_tool_calls, calls, outs,
                   configurable>>

NextDispatch == dispatch

SpecDispatch == InitDispatch /\ [][NextDispatch]_vars

(***************************************************************************)
(* The sanitizer on its own: a history is drawn, agent_node's preparation  *)
(* of the model input (into sent) and filter_empty_content_messages (into  *)
(* results) are applied to it, and then once more to their own output.     *)
(***************************************************************************)
SanitizeMessages ==
    { SystemMessage(<<"be", " ", "brief">>),
      SystemMessage(<<>>),
      HumanMessage(<<"hi">>),
      HumanMessage(<<" ">>),
      AIMessage(<<>>, <<ToolCall(<<0, 1>>, "brave_search", "q")>>, {}),
      AIMessage(<<"answer">>, <<>>, {}),
      ToolMessage(<<>>, <<0, 1>>),
      ToolMessage(<<"out">>, <<0, 1>>),
      FunctionMessage(<<"\n">>, "brave_search") }

SanitizeHistories == UNION { [1..n -> SanitizeMessages] : n \in 0..MaxSanitize }

InitSanitize ==
    /\ messages \in SanitizeHistories
    /\ sent = <<>>
    /\ results = <<>>
    /\ pc = "sanitize"
    /\ initLen = Len(messages)
    /\ max_tool_calls = DefaultMaxToolCalls
    /\ configurable = <<>>
    /\ modelCalls = 0
    /\ invoked = <<>>
    /\ calls = <<>>
    /\ outs = <<>>

sanitize ==
    /\ pc = "sanitize"
    /\ sent' = processed_messages(messages)
    /\ results' = filter_empty_content_messages(messages)
    /\ pc' = "sanitized"
    /\ UNCHANGED <<messages, modelCalls, invoked, initLen, max_tool_calls, calls,
                   outs, configurable>>

sanitize_again ==
    /\ pc = "sanitized"
    /\ sent' = processed_messages(sent)
    /\ results' = filter_empty_content_messages(results)
    /\ pc' = "resanitized"
    /\ UNCHANGED <<messages, modelCalls, invoked, initLen, max_tool_calls, calls,
                   outs, configurable>>

NextSanitize == sanitize \/ sanitize_again

SpecSanitize == InitSanitize /\ [][NextSanitize]_vars

(***************************************************************************)
(* The configuration loader on its own: an option mapping is drawn and     *)
(* get_agent_config is applied to it.                                      *)
(***************************************************************************)
OptionValues ==
    { Str(<<"gemini-pro">>), Str(<<"10">>), Int_(10), Float("0.5"), None }

OptionKeys == config_fields \cup {"extra_field"}

OptionMappings == UNION { [K -> OptionValues] : K \in SUBSET OptionKeys }

InitConfig ==
    /\ configurable \in OptionMappings
    /\ results = <<>>
    /\ pc = "load"
    /\ messages = <<>>
    /\ initLen = 0
    /\ max_tool_calls = DefaultMaxToolCalls
    /\ modelCalls = 0
    /\ sent = <<>>
    /\ invoked = <<>>
    /\ calls = <<>>
    /\ outs = <<>>

load_config ==
    /\ pc = "load"
    /\ LET loaded == get_agent_config(configurable)
       IN IF loaded.raised = ""
          THEN /\ results' = <<loaded.config>>
               /\ pc' = "loaded"
          ELSE /\ results' = results
               /\ pc' = "raised"
    /\ UNCHANGED <<messages, modelCalls, sent, invoked, initLen, max_tool_calls,
                   calls, outs, configurable>>

NextConfig == load_config

SpecConfig == InitConfig /\ [][NextConfig]_vars

(***************************************************************************)
(* Properties of the agent loop.                                           *)
(***************************************************************************)
LastMessage(msgs) == msgs[Len(msgs)]

\* C1: a run makes at most max_tool_calls + 1 model calls, max_tool_calls
\* being the configured maximum of consecutive tool calls.
C1_BoundedModelCalls == modelCalls <= max_tool_calls + 1

\* what the loop guard reports over a state, as should_continue asks it
GuardTrips(msgs) ==
    has_too_many_consecutive_tool_calls(msgs, DefaultMaxCalls, DefaultLookBack)

\* C2: after a model response is appended the loop goes to END when the
\* guard reports true over the new state (also when the response carries
\* tool calls), else to tools_node when the response carries tool calls,
\* else to END; and END is terminal.
C2_DecisionPriority ==
    [][ /\ (pc = "agent_node" /\ modelCalls' = modelCalls + 1) =>
             /\ GuardTrips(messages') => pc' = "END"
             /\ (~GuardTrips(messages') /\ LastMessage(messages').tool_calls # <<>>)
                    => pc' = "tools_node"
             /\ (~GuardTrips(messages') /\ LastMessage(messages').tool_calls = <<>>)
                    => pc' = "END"
        /\ pc = "END" => UNCHANGED vars ]_vars

\* C2 witness: the run ended on the guard although the response carries
\* tool calls
C2_Witness ==
    /\ pc = "END"
    /\ modelCalls >= 1
    /\ LastMessage(messages).tool_calls # <<>>
    /\ GuardTrips(messages)

\* number of tool results in msgs that carry the id
AnswersOf(msgs, id) ==
    Cardinality({ j \in 1..Len(msgs) :
                    msgs[j].type = "tool" /\ msgs[j].tool_call_id = id })

\* position of the most recent assistant message
LastAssistant(msgs) ==
    CHOOSE j \in 1..Len(msgs) :
        /\ msgs[j].type = "ai"
        /\ \A k \in (j + 1)..Len(msgs) : msgs[k].type # "ai"

\* C3: at every model call after the first, each request of the preceding
\* assistant response has exactly one tool result in the state and nothing
\* but these results follows the response; and every tool result the loop
\* appends carries the id of a request of that response which had no result
\* yet.
C3_ResultsBeforeNextCall ==
    [][ /\ (pc' = "agent_node" /\ modelCalls' >= 1) =>
             LET a == LastAssistant(messages')
                 requests == messages'[a].tool_calls
             IN /\ \A i \in 1..Len(requests) :
                       AnswersOf(messages', requests[i].id) = 1
                /\ Len(messages') = a + Len(requests)
                /\ \A j \in (a + 1)..Len(messages') : messages'[j].type = "tool"
        /\ \A j \in (Len(messages) + 1)..Len(messages') :
             messages'[j].type = "tool" =>
                 /\ \E i \in 1..Len(LastMessage(messages).tool_calls) :
                        LastMessage(messages).tool_calls[i].id
                            = messages'[j].tool_call_id
                 /\ AnswersOf(SubSeq(messages', 1, j - 1),
                              messages'[j].tool_call_id) = 0 ]_vars

\* C3 witness: the model is about to be called again after a round of two
\* or more requests
C3_Witness ==
    /\ pc = "agent_node"
    /\ modelCalls >= 1
    /\ Len(messages[LastAssistant(messages)].tool_calls) >= 2
    /\ LastMessage(messages).type = "tool"

\* positions of the assistant messages appended during the run
AppendedAssistants ==
    { j \in (initLen + 1)..Len(messages) : messages[j].type = "ai" }

\* C4 as stated: in the state the run returns, each request of every
\* assistant message appended during the run has exactly one tool result.
C4_EveryRequestAnswered ==
    pc = "END" =>
        \A j \in AppendedAssistants :
            \A i \in 1..Len(messages[j].tool_calls) :
                AnswersOf(messages, messages[j].tool_calls[i].id) = 1

\* C4 amended: in the state the run returns, each request of every assistant
\* message appended during the run has exactly one tool result, except the
\* requests of the final response, which have none.
C4_AnsweredExceptFinal ==
    pc = "END" =>
        \A j \in AppendedAssistants :
            \A i \in 1..Len(messages[j].tool_calls) :
                AnswersOf(messages, messages[j].tool_calls[i].id)
                    = IF j = Len(messages) THEN 0 ELSE 1

\* C4 witness: a run that dispatched a round of two requests and then ended
\* on a response that carries requests
C4_Witness ==
    /\ pc = "END"
    /\ LastMessage(messages).tool_calls # <<>>
    /\ \E j \in AppendedAssistants :
         j < Len(messages) /\ Len(messages[j].tool_calls) >= 2

\* C6: when a tool raises during dispatch the request's result is
\* "Error executing tool <name>: <message>", it is appended to the state
\* under the request's id, and the loop goes on to the next model call.
C6_FailureRecovered ==
    [][ pc = "tools_node" =>
          \A k \in 1..Len(invoked') :
              invoked'[k].outcome.kind = "raise" =>
                  LET r == invoked'[k]
                      m == messages'[Len(messages) + r.call]
                  IN /\ pc' = "agent_node"
                     /\ Len(messages') >= Len(messages) + r.call
                     /\ m.type = "tool"
                     /\ m.tool_call_id = LastMessage(messages).tool_calls[r.call].id
                     /\ m.content = <<"Error executing tool ", r.tool, ": ">>
                                        \o r.outcome.msg ]_vars

\* C6 witness: the model was called again after a round in which a tool
\* raised
C6_Witness ==
    /\ modelCalls >= 2
    /\ \E k \in 1..Len(invoked) : invoked[k].outcome.kind = "raise"
    /\ \E j \in 1..Len(messages) :
         /\ messages[j].type = "tool"
         /\ messages[j].content[1] = "Error executing tool "

Registered(name) == \E t \in 1..Len(tools) : tools[t].name = name

\* C7: a request naming no registered tool invokes no tool and yields the
\* result "Tool '<name>' not found" under the request's id; the dispatch
\* does not fail and the loop goes on to the next model call.
C7_UnknownToolRecovered ==
    [][ pc = "tools_node" =>
          \A i \in 1..Len(LastMessage(messages).tool_calls) :
              LET c == LastMessage(messages).tool_calls[i]
              IN ~Registered(c.name) =>
                     /\ pc' = "agent_node"
                     /\ Len(messages') >= Len(messages) + i
                     /\ messages'[Len(messages) + i]
                            = ToolMessage(<<"Tool '", c.name, "' not found">>, c.id)
                     /\ \A k \in 1..Len(invoked') : invoked'[k].call # i ]_vars

\* C7 witness: the model was called again after a round with a request for
\* an unregistered tool
C7_Witness ==
    /\ modelCalls >= 2
    /\ \E j \in (initLen + 1)..Len(messages) :
         /\ messages[j].type = "ai"
         /\ \E i \in 1..Len(messages[j].tool_calls) :
                /\ ~Registered(messages[j].tool_calls[i].name)
                /\ AnswersOf(messages, messages[j].tool_calls[i].id) = 1

(***************************************************************************)
(* Properties of the dispatcher.                                           *)
(***************************************************************************)
\* C5: dispatching N requests yields exactly N tool results, the i-th
\* carrying the id of the i-th request.
C5_OneResultPerRequest ==
    pc = "dispatched" =>
        /\ Len(results) = Len(calls)
        /\ \A i \in 1..Len(results) :
               /\ results[i].type = "tool"
               /\ results[i].tool_call_id = calls[i].id

\* C5 witness: a dispatched batch with distinct ids that mixes an
\* unregistered tool, a failing tool and a succeeding tool
C5_Witness ==
    /\ pc = "dispatched"
    /\ Len(calls) >= 3
    /\ calls[1].id # calls[2].id
    /\ \E i \in 1..Len(calls) : ~Registered(calls[i].name)
    /\ \E i \in 1..Len(calls) : Registered(calls[i].name) /\ outs[i].kind = "raise"
    /\ \E i \in 1..Len(calls) : Registered(calls[i].name) /\ outs[i].kind = "text"

NotBlank(text) == \E k \in 1..Len(text) : text[k] \notin Whitespace

\* text is value without its leading and trailing whitespace
TrimOf(text, value) ==
    /\ text # <<>>
    /\ text[1] \notin Whitespace
    /\ text[Len(text)] \notin Whitespace
    /\ \E a \in 1..Len(value) :
         /\ text = SubSeq(value, a, a + Len(text) - 1)
         /\ \A k \in 1..(a - 1) : value[k] \in Whitespace
         /\ \A k \in (a + Len(text))..Len(value) : value[k] \in Whitespace

\* C8: the content of every tool result the dispatcher produces is neither
\* empty nor whitespace-only: output with text gives the trimmed output,
\* None, empty or whitespace-only output gives a sentinel text.
C8_ContentNeverBlank ==
    pc = "dispatched" =>
        \A i \in 1..Len(results) :
            /\ NotBlank(results[i].content)
            /\ (Registered(calls[i].name) /\ outs[i].kind = "text"
                  /\ NotBlank(outs[i].value))
                   => TrimOf(results[i].content, outs[i].value)
            /\ (Registered(calls[i].name) /\ outs[i].kind = "none")
                   => results[i].content
                          = <<"Tool execution completed with no output">>
            /\ (Registered(calls[i].name) /\ outs[i].kind = "text"
                  /\ ~NotBlank(outs[i].value))
                   => results[i].content
                          = <<"Tool execution completed but returned empty result">>

\* C8 witness: a dispatched batch with a whitespace-only output and an
\* output padded with whitespace
C8_Witness ==
    /\ pc = "dispatched"
    /\ \E i \in 1..Len(calls) :
         /\ Registered(calls[i].name)
         /\ outs[i].kind = "text"
         /\ outs[i].value # <<>>
         /\ ~NotBlank(outs[i].value)
    /\ \E i \in 1..Len(calls) :
         /\ Registered(calls[i].name)
         /\ outs[i].kind = "text"
         /\ NotBlank(outs[i].value)
         /\ results[i].content # outs[i].value

(***************************************************************************)
(* Properties of the loop guard.                                           *)
(***************************************************************************)
\* first position of the longest suffix of msgs made only of
\* tool-call-bearing messages and tool results
TrailingStart(msgs) ==
    CHOOSE s \in 1..(Len(msgs) + 1) :
        /\ \A k \in s..Len(msgs) :
               msgs[k].tool_calls # <<>> \/ msgs[k].type = "tool"
        /\ s > 1 => ~(msgs[s - 1].tool_calls # <<>> \/ msgs[s - 1].type = "tool")

\* number of tool-call turns at the end of msgs, tool results interleaved
TrailingToolCallTurns(msgs) ==
    Cardinality({ k \in TrailingStart(msgs)..Len(msgs) : msgs[k].tool_calls # <<>> })

\* C9: when the last maxCalls qualifying turns of a history are tool-call
\* turns, with any number of tool results interleaved, the guard called
\* with the default lookBack returns true.
C9_TrailingTurnsTrip ==
    \A max_calls \in 1..DefaultMaxCalls :
        TrailingToolCallTurns(messages) >= max_calls
            => has_too_many_consecutive_tool_calls(messages, max_calls,
                                                   DefaultLookBack)

\* number of tool-call-bearing messages in msgs
ToolCallMessages(msgs) ==
    Cardinality({ k \in 1..Len(msgs) : msgs[k].tool_calls # <<>> })

\* the values of lookBack the guard is tried with
LookBacks == (0 - 1)..(DefaultLookBack + 1)

\* C10: for a history with fewer than maxCalls tool-call-bearing messages,
\* maxCalls >= 1, the guard returns false.
C10_ShortHistoryNeverTrips ==
    \A max_calls \in 1..(DefaultMaxCalls + 1) :
        ToolCallMessages(messages) < max_calls
            => \A look_back \in LookBacks :
                   ~has_too_many_consecutive_tool_calls(messages, max_calls, look_back)

\* C10 witness: a history with two tool-call turns and tool results that
\* trips the guard for maxCalls = 2 and not for the default maxCalls
C10_Witness ==
    /\ pc = "guard"
    /\ ToolCallMessages(messages) = 2
    /\ \E k \in 1..Len(messages) : messages[k].type = "tool"
    /\ has_too_many_consecutive_tool_calls(messages, 2, DefaultLookBack)
    /\ results = <<FALSE>>

(***************************************************************************)
(* Properties of the sanitizer.                                            *)
(***************************************************************************)
\* C11: sanitizing a sanitized history changes nothing, for agent_node's
\* preparation of the model input and for filter_empty_content_messages.
C11_SanitizeIdempotent ==
    [][ pc = "sanitized" => (sent' = sent /\ results' = results) ]_vars

\* C11 witness: a history that both sanitizers changed has been sanitized
\* twice
C11_Witness ==
    /\ pc = "resanitized"
    /\ Len(sent) = Len(messages) + 1
    /\ \E i \in 1..Len(messages) : sent[i + 1] # messages[i]
    /\ results # messages

\* C12: a history that starts with a System message followed by a User
\* message and has no blank content is returned unchanged.
C12_CleanHistoryUnchanged ==
    ( /\ pc = "sanitized"
      /\ Len(messages) >= 2
      /\ messages[1].type = "system"
      /\ messages[2].type = "human"
      /\ \A i \in 1..Len(messages) : NotBlank(messages[i].content) )
        => (sent = messages /\ results = messages)

\* C12 witness: a sanitized System-first, User-second history of three
\* messages without blank content
C12_Witness ==
    /\ pc = "sanitized"
    /\ Len(messages) >= 3
    /\ messages[1].type = "system"
    /\ messages[2].type = "human"
    /\ \A i \in 1..Len(messages) : NotBlank(messages[i].content)
    /\ sent = messages

\* the history is empty or a single System message: after the system-message
\* step it is exactly one System message
OnlySystem(msgs) ==
    msgs = <<>> \/ (Len(msgs) = 1 /\ msgs[1].type = "system")

\* C13: when the sequence after the system-message step is exactly one
\* System message, the sanitizer appends the User message "Hello", so that
\* the model input has a user turn.
C13_HelloPlaceholder ==
    (pc = "sanitized" /\ OnlySystem(messages)) =>
        /\ Len(sent) = 2
        /\ sent[1].type = "system"
        /\ sent[2] = HumanMessage(<<"Hello">>)

\* the System message of the configuration the run was started with
ConfiguredSystemMessage ==
    get_system_message(get_agent_config(configurable).config)

\* C14: the model input of the first call begins with a System message: the
\* configured default System message, prepended, when the history is empty
\* or does not begin with a System message; the history's own first
\* message, nothing being prepended, when it does.
C14_ConfiguredSystemFirst ==
    modelCalls = 1 =>
        LET input == SubSeq(messages, 1, initLen)
        IN /\ sent # <<>>
           /\ sent[1].type = "system"
           /\ IF input = <<>> \/ input[1].type # "system"
              THEN sent[1] = ConfiguredSystemMessage /\ Len(sent) = Len(input) + 1
              ELSE sent[1] = input[1] /\ Len(sent) = Len(input)

Blank(text) == ~NotBlank(text)

\* the content the sanitizer gives a message: out is the output message for
\* the input message in
PlaceholderRule(in, out) ==
    /\ out.type # "system" => NotBlank(out.content)
    /\ (Blank(in.content) /\ in.type = "tool") => out.content = <<"Completed">>
    /\ (Blank(in.content) /\ in.type \in {"human", "ai"}) => out.content = <<"...">>
    /\ (Blank(in.content) /\ in.type = "function")
           => out.content \in {<<"Completed">>, <<"...">>}
    /\ (Blank(in.content) /\ in.type = "system") => out = in
    /\ NotBlank(in.content) => out = in

\* number of messages agent_node's preparation put in front of the history
Prepended == Len(sent) - Len(messages)

SameButContent(in, out) == [out EXCEPT !.content = in.content] = in

\* C16: sanitizing leaves the input history as it was, and the output holds
\* the input messages in their order, each with every field but the content
\* as in the input.
C16_SanitizeFrame ==
    [][ pc = "sanitize" =>
          /\ messages' = messages
          /\ Len(results') = Len(messages)
          /\ Len(sent') - Len(messages) \in {0, 1}
          /\ \A i \in 1..Len(messages) :
                 /\ SameButContent(messages[i], sent'[i + Len(sent') - Len(messages)])
                 /\ SameButContent(messages[i], results'[i]) ]_vars

\* C16 witness: a sanitized history in which an assistant message with tool
\* calls and a tool result got a placeholder
C16_Witness ==
    /\ pc = "sanitized"
    /\ \E i \in 1..Len(messages) :
         /\ messages[i].tool_calls # <<>>
         /\ sent[i + Prepended].content # messages[i].content
         /\ sent[i + Prepended].tool_calls = messages[i].tool_calls
    /\ \E i \in 1..Len(messages) :
         /\ messages[i].type = "tool"
         /\ sent[i + Prepended].content # messages[i].content
         /\ sent[i + Prepended].tool_call_id = messages[i].tool_call_id

(***************************************************************************)
(* Further properties of the agent loop.                                   *)
(***************************************************************************)
\* C17: the state only grows at its end: every step keeps the messages
\* already there, a model call adds the one response, a dispatch round adds
\* tool results; what the sanitizer substitutes is not written to the state.
C17_AppendOnly ==
    [][ /\ Len(messages') >= Len(messages)
        /\ SubSeq(messages', 1, Len(messages)) = messages
        /\ modelCalls' = modelCalls + 1 =>
               /\ Len(messages') = Len(messages) + 1
               /\ LastMessage(messages').type = "ai"
        /\ pc = "tools_node" =>
               /\ Len(messages') = Len(messages) + Len(LastMessage(messages).tool_calls)
               /\ \A j \in (Len(messages) + 1)..Len(messages') :
                      messages'[j].type = "tool" ]_vars

\* C17 witness: a finished run of two model calls whose history holds a
\* blank User message the model saw as "..."
C17_Witness ==
    /\ pc = "END"
    /\ modelCalls >= 2
    /\ \E i \in 1..initLen :
         /\ messages[i].type = "human"
         /\ Blank(messages[i].content)
         /\ sent[i].content = <<"...">>

\* C18: a response that carries a single call in the legacy function-call
\* shape and no structured tool calls is dispatched by the loop.
C18_LegacyDispatched ==
    ( /\ modelCalls >= 1
      /\ LastMessage(messages).type = "ai"
      /\ LastMessage(messages).function_call # {}
      /\ LastMessage(messages).tool_calls = <<>> )
        => pc = "tools_node"

(***************************************************************************)
(* Properties of the configuration loader.                                 *)
(***************************************************************************)
\* the value has the declared type of the field
OfFieldType(field, value) ==
    IF field \in {"model_name", "system_message"} THEN value.t = "str"
    ELSE IF field = "temperature" THEN value.t = "float"
    ELSE value.t = "int"

\* the value cannot be read as a value of the field
InvalidFor(field, value) ==
    \/ value.t = "none"
    \/ field \in {"model_name", "system_message"} /\ value.t # "str"
    \/ field \in {"temperature", "max_tool_calls"} /\ value = Str(<<"gemini-pro">>)
    \/ field = "max_tool_calls" /\ value = Float("0.5")

Supplied == DOMAIN configurable \cap config_fields

\* a valid value as a value of the field's type: the number 10 given as an
\* int or as the text "10" is the float 10.0 or the int 10
ValueAs(field, value) ==
    IF OfFieldType(field, value) THEN value
    ELSE IF field = "temperature" THEN Float("10.0")
    ELSE Int_(10)

\* C19: loading never raises; unrecognized keys are ignored; when every
\* recognized key has a valid value the configuration carries these values
\* and the defaults for the keys not supplied.
C19_LoadNeverRaises ==
    /\ pc # "raised"
    /\ pc = "loaded" =>
         /\ DOMAIN results[1] = config_fields
         /\ (\A k \in Supplied : ~InvalidFor(k, configurable[k])) =>
                \A k \in config_fields :
                    results[1][k] = IF k \in Supplied
                                    THEN ValueAs(k, configurable[k])
                                    ELSE ConfigurationDefaults[k]

\* C19 witness: a mapping with an unrecognized key, a valid model name and
\* no temperature has been loaded
C19_Witness ==
    /\ pc = "loaded"
    /\ "extra_field" \in DOMAIN configurable
    /\ "model_name" \in Supplied
    /\ "temperature" \notin Supplied
    /\ \A k \in Supplied : OfFieldType(k, configurable[k])
    /\ results[1].model_name = Str(<<"gemini-pro">>)

\* C20 as stated: a field supplied with an invalid value takes its default
\* and every other field supplied with a valid value keeps that value.
C20_PerFieldFallback ==
    pc = "loaded" =>
        \A k \in Supplied :
            /\ InvalidFor(k, configurable[k]) => results[1][k] = ConfigurationDefaults[k]
            /\ OfFieldType(k, configurable[k]) => results[1][k] = configurable[k]

\* C20 amended: when a recognized field is supplied with an invalid value,
\* every field takes its default.
C20_WholeFallback ==
    (pc = "loaded" /\ \E k \in Supplied : InvalidFor(k, configurable[k]))
        => results[1] = ConfigurationDefaults

\* C20 witness: a mapping with an invalid temperature and a valid model name
\* has been loaded, and the model name is the default one
C20_Witness ==
    /\ pc = "loaded"
    /\ "temperature" \in Supplied
    /\ InvalidFor("temperature", configurable["temperature"])
    /\ "model_name" \in Supplied
    /\ configurable["model_name"] = Str(<<"gemini-pro">>)
    /\ results[1].model_name = ConfigurationDefaults.model_name

(***************************************************************************)
(* Further properties of the loop guard.                                   *)
(***************************************************************************)
\* the last n messages of msgs, all of them when there are fewer
LastOf(msgs, n) ==
    SubSeq(msgs, (IF n > Len(msgs) THEN 0 ELSE Len(msgs) - n) + 1, Len(msgs))

\* the tool-call-bearing messages met scanning the last look_back messages
\* backward, skipping tool results, up to the first message that is neither
ScanCount(msgs, look_back) == TrailingToolCallTurns(LastOf(msgs, look_back))

\* the values of maxCalls and lookBack the guard is tried with
MaxCallsTried == 0..(DefaultMaxCalls + 1)
LookBacksTried == 0..(DefaultLookBack + 1)

\* C21: for every history, maxCalls and lookBack the guard returns true
\* exactly when the count of the backward scan over the last lookBack
\* messages is at least maxCalls.
C21_GuardIffCount ==
    \A max_calls \in MaxCallsTried, look_back \in LookBacksTried :
        has_too_many_consecutive_tool_calls(messages, max_calls, look_back)
            <=> ScanCount(messages, look_back) >= max_calls

\* the run length the guard counts over msgs
CountedRun(msgs, look_back) ==
    LET recent == recent_messages(msgs, look_back)
    IN count_consecutive(recent, Len(recent), 0)

\* C25: the run length the guard counts is at most min(lookBack, length of
\* the history), and the guard returns false whenever maxCalls > lookBack.
C25_CountWithinWindow ==
    \A look_back \in LookBacksTried :
        /\ CountedRun(messages, look_back) <= look_back
        /\ CountedRun(messages, look_back) <= Len(messages)
        /\ \A max_calls \in (look_back + 1)..(DefaultLookBack + 2) :
               ~has_too_many_consecutive_tool_calls(messages, max_calls, look_back)

(***************************************************************************)
(* Further properties of the dispatcher.                                   *)
(***************************************************************************)
\* C22: in one dispatch round each request that names a registered tool
\* invokes that tool exactly once, also when the invocation fails; the
\* invocations are in request order; a failure or an unknown tool does not
\* keep the later requests of the round from being invoked.
C22_OneInvocationInOrder ==
    pc = "dispatched" =>
        LET found == { i \in 1..Len(calls) : Registered(calls[i].name) }
        IN /\ Len(invoked) = Cardinality(found)
           /\ \A j \in 1..Len(invoked) :
                  /\ invoked[j].call \in found
                  /\ invoked[j].tool = calls[invoked[j].call].name
                  /\ invoked[j].input = calls[invoked[j].call].args
           /\ \A j, k \in 1..Len(invoked) :
                  j < k => invoked[j].call < invoked[k].call

\* C22 witness: a dispatched round whose first request fails, whose second
\* names no registered tool and whose third is invoked
C22_Witness ==
    /\ pc = "dispatched"
    /\ Len(calls) = 3
    /\ Registered(calls[1].name) /\ outs[1].kind = "raise"
    /\ ~Registered(calls[2].name)
    /\ Registered(calls[3].name)
    /\ Len(invoked) = 2
    /\ invoked[1].call = 1
    /\ invoked[2].call = 3

(***************************************************************************)
(* Further properties of the routing of the loop.                          *)
(***************************************************************************)
\* C23: right after a model response without tool calls is appended the
\* guard reports false for every maxCalls >= 1, whatever the earlier
\* history, and the run ends.
C23_AnswerNeverLoopLimit ==
    ( /\ modelCalls >= 1
      /\ Len(messages) > initLen
      /\ LastMessage(messages).type = "ai"
      /\ LastMessage(messages).tool_calls = <<>> )
        => /\ pc = "END"
           /\ \A max_calls \in 1..(DefaultMaxCalls + 1), look_back \in LookBacksTried :
                  ~has_too_many_consecutive_tool_calls(messages, max_calls, look_back)

\* C23 witness: a run that ended on a response without tool calls after two
\* tool-call turns
C23_Witness ==
    /\ pc = "END"
    /\ modelCalls >= 2
    /\ LastMessage(messages).type = "ai"
    /\ LastMessage(messages).tool_calls = <<>>
    /\ ToolCallMessages(messages) >= 2

\* C24: the tools node is entered only with a last message that has a
\* non-empty structured tool-call list: the legacy branch (which may fail on
\* its arguments) and the "No tool calls found" branch are never taken.
C24_ToolsNodeOnStructuredCalls ==
    /\ pc = "tools_node" => LastMessage(messages).tool_calls # <<>>
    /\ pc # "raised"
    /\ \A k \in (initLen + 1)..Len(messages) : messages[k].type # "function"

\* C24 witness: the tools node is entered for the second time in a run
C24_Witness ==
    /\ pc = "tools_node"
    /\ modelCalls >= 2
    /\ LastMessage(messages).tool_calls # <<>>
    /\ \E k \in (initLen + 1)..Len(messages) : messages[k].type = "tool"

====
